---- MODULE Spec2Model ----
(***************************************************************************)
(* SplitEZ: shared expenses, the settlements derived from them, payment    *)
(* status and group membership, as the client code reads and writes them   *)
(* in the document store (collections users, groups, expenses,             *)
(* settlements).                                                           *)
(*                                                                         *)
(* Money.  The code computes with IEEE doubles.  The model keeps money as  *)
(* an integer number of thousandths of a currency unit, and a division     *)
(* rounds to the nearest thousandth: a quotient that is not representable  *)
(* is rounded, as the double quotient is, only on a coarser grid, so the   *)
(* drift the model shows is larger than the drift of the code.             *)
(***************************************************************************)
EXTENDS Integers, Sequences, FiniteSets, TLC

(***************************************************************************)
(* Bounds of the model.                                                    *)
(***************************************************************************)
MaxExpenses == 1
MaxXP == 30
MaxSettlements == 8
MaxGroups == 1
MaxEmails == 2
MaxWriters == 2
MaxReminders == 2

(***************************************************************************)
(* Accounts, in the order the group lists them (group.members).            *)
(***************************************************************************)
UserOrder == <<"u1", "u2", "u3">>
Users == {UserOrder[i] : i \in 1..Len(UserOrder)}

\* Amounts the expense form is filled with: 100.000 and 300.000.
Amounts == {100000, 300000}

\* 0.01 currency unit, in thousandths (the tolerance of the custom split).
Tolerance == 10

VARIABLES users, groups, expenses, settlements, removed, reminders,
          sessions, memberList, lastAlert

vars == <<users, groups, expenses, settlements, removed, reminders,
          sessions, memberList, lastAlert>>

(***************************************************************************)
(* Arithmetic helpers.                                                     *)
(***************************************************************************)
Abs(x) == IF x < 0 THEN -x ELSE x

\* a / n as the floating-point quotient: rounded to the nearest
\* representable value (a >= 0, n > 0).
Quotient(a, n) == (2 * a + n) \div (2 * n)

RECURSIVE SumOver(_, _)
\* reduce((sum, x) => sum + x, 0) over the values f[k], k in S
SumOver(f, S) ==
    IF S = {} THEN 0
    ELSE LET k == CHOOSE x \in S : TRUE IN f[k] + SumOver(f, S \ {k})

Range(seq) == {seq[i] : i \in DOMAIN seq}

\* The members of S in the order of the sequence order.
InOrder(order, S) == SelectSeq(order, LAMBDA u : u \in S)

(***************************************************************************)
(* The store.                                                              *)
(*   users        account id -> profile (email, xpPoints, level)           *)
(*   groups       sequence of group documents, the id is the index         *)
(*   expenses     sequence of expense documents, the id is the index       *)
(*   settlements  sequence of settlement documents, the id is the index    *)
(*   removed      the ids of the group and expense documents deleteDoc has *)
(*                removed: a removed document stays in its sequence (ids   *)
(*                are not reused) and no longer exists for getDoc, getDocs *)
(*   reminders    sequence of reminder documents                            *)
(* and the clients:                                                        *)
(*   sessions     per account, the expense-details page: whether its       *)
(*                settlePayment is between its read and its write, and the *)
(*                snapshot it read                                         *)
(*   memberList   the add-expense form as loadGroupMembers filled it: the   *)
(*                group it was loaded for, the accounts offered as payer   *)
(*                and split members, the emails shown as pending, and the  *)
(*                pending emails whose lookup was logged as failed         *)
(*   lastAlert    the last message a handler showed (alert)                *)
(***************************************************************************)
Idle == [pc |-> "idle", expenseId |-> 0, settlementStatus |-> {}]

\* getDoc(doc(db, 'groups', g)).exists()
GroupExists(g) == g \in DOMAIN groups /\ g \notin removed.groups

\* getDoc(doc(db, 'expenses', i)).exists()
ExpenseExists(i) == i \in DOMAIN expenses /\ i \notin removed.expenses

\* The profile signUp stores for a new account.
NewProfile(email) == [email |-> email, xpPoints |-> 0, level |-> 1]

\* expense.settlementStatus[u] || 'pending': the entries of the map are only
\* ever 'paid', so the map is kept as the set of its keys.
StatusOf(expense, u) ==
    IF u \in expense.settlementStatus THEN "paid" ELSE "pending"

(***************************************************************************)
(* analytics.js                                                            *)
(***************************************************************************)
awardXP(us, userId, points) ==
    IF userId \notin DOMAIN us THEN us
    ELSE LET newXP == us[userId].xpPoints + points
         IN  [us EXCEPT ![userId].xpPoints = newXP,
                        ![userId].level = (newXP \div 100) + 1]

\* calculateSettlements without 'if (memberId === paidBy) continue'.
calculateSettlementsNoSkip(groupId, expense, expenseId) ==
    LET owing == InOrder(UserOrder, DOMAIN expense.splitAmounts)
    IN  [i \in 1..Len(owing) |->
            [groupId |-> groupId, expenseId |-> expenseId,
             userId |-> owing[i], owedTo |-> expense.paidBy,
             amount |-> expense.splitAmounts[owing[i]], status |-> "pending"]]

\* The settlement documents one run of calculateSettlements adds for the
\* expense with the given id: one per key of splitAmounts that is not the
\* payer, in the order of the keys, then the payer's own record with the
\* negated total when that total is positive.
calculateSettlements(groupId, expense, expenseId) ==
    LET paidBy == expense.paidBy
        splitAmounts == expense.splitAmounts
        owing == InOrder(UserOrder, (DOMAIN splitAmounts) \ {paidBy})
        memberDocs == [i \in 1..Len(owing) |->
            [groupId |-> groupId, expenseId |-> expenseId,
             userId |-> owing[i], owedTo |-> paidBy,
             amount |-> splitAmounts[owing[i]], status |-> "pending"]]
        totalOwed == SumOver(splitAmounts, (DOMAIN splitAmounts) \ {paidBy})
        payerSettlement ==
            [groupId |-> groupId, expenseId |-> expenseId,
             userId |-> paidBy, owedTo |-> paidBy,
             amount |-> -totalOwed, status |-> "pending"]
    IN  IF totalOwed > 0 THEN Append(memberDocs, payerSettlement)
        ELSE memberDocs

(***************************************************************************)
(* expenses.js: addExpense                                                 *)
(***************************************************************************)
\* What a custom input field may hold for an expense of amount a: empty
\* (parseFloat(...) || 0), the whole amount, half of it, half of it less
\* 0.002, and 45% of it.
CustomChoices(a) == {0, a, a \div 2, (a \div 2) - 2, (a * 45) \div 100}

\* EqualSplit with the divisor off by one.
EqualSplitOffByOne(amount, selectedMembers) ==
    LET perPerson == Quotient(amount, Cardinality(selectedMembers) + 1)
    IN  [m \in selectedMembers |-> perPerson]

\* The split of the 'equal' policy.
EqualSplit(amount, selectedMembers) ==
    LET perPerson == Quotient(amount, Cardinality(selectedMembers))
    IN  [m \in selectedMembers |-> perPerson]

\* SplitMismatch that accepts every split.
SplitMismatchNever(totalCustom, amount) == FALSE

\* SplitMismatch with the comparison turned around.
SplitMismatchInverted(totalCustom, amount) ==
    Abs(totalCustom - amount) <= Tolerance

\* The validation of the 'custom' policy: TRUE when the split is rejected.
SplitMismatch(totalCustom, amount) == Abs(totalCustom - amount) > Tolerance

\* The documents of docs that reach the store when the backend rejects the
\* addDoc number rejected (0: none is rejected): calculateSettlements
\* writes them one after the other, and the first rejection throws into its
\* catch, which logs the error and returns.
Written(docs, rejected) ==
    IF rejected = 0 \/ rejected > Len(docs) THEN docs
    ELSE SubSeq(docs, 1, rejected - 1)

\* addExpense, from the submitted form to the final alert.  splitTypes and
\* amounts are the policies and the amounts the form is submitted with,
\* rejections the addDoc calls of calculateSettlements the backend may
\* reject.
AddExpenseOf(splitTypes, amounts, rejections) ==
    \E amount \in amounts, paidBy \in Range(memberList.memberIds),
       splitType \in splitTypes, rejected \in rejections,
       selectedMembers \in SUBSET Range(memberList.memberIds) :
      LET groupId == memberList.groupId IN
      /\ Len(expenses) < MaxExpenses
      /\ IF selectedMembers = {}
         THEN /\ lastAlert' = "select_member"
              /\ UNCHANGED <<users, groups, memberList, expenses, settlements,
                             sessions, removed, reminders>>
         ELSE \E custom \in [selectedMembers -> CustomChoices(amount)] :
              LET splitAmounts ==
                      IF splitType = "equal"
                      THEN EqualSplit(amount, selectedMembers)
                      ELSE custom
                  totalCustom == SumOver(custom, selectedMembers)
                  expenseData ==
                      [groupId |-> groupId, amount |-> amount,
                       paidBy |-> paidBy, splitType |-> splitType,
                       splitMembers |-> selectedMembers,
                       splitAmounts |-> splitAmounts,
                       settlementStatus |-> {}]
              IN  IF splitType # "equal" /\ SplitMismatch(totalCustom, amount)
                  THEN /\ lastAlert' = "split_mismatch"
                       /\ UNCHANGED <<users, groups, memberList, expenses,
                                      settlements, sessions, removed,
                                      reminders>>
                  ELSE /\ expenses' = Append(expenses, expenseData)
                       /\ settlements' = settlements \o
                              Written(calculateSettlements(groupId,
                                          expenseData, Len(expenses) + 1),
                                      rejected)
                       /\ users' = awardXP(users, paidBy, 10)
                       /\ lastAlert' = "expense_added"
                       /\ UNCHANGED <<removed, reminders, groups, memberList,
                                      sessions>>

\* Any form: both policies, every amount.
AddExpense == AddExpenseOf({"equal", "custom"}, Amounts, {0})

\* The form of the ledger specifications: an equal split of 100.000, which
\* three members do not divide exactly.
AddExpenseEqual == AddExpenseOf({"equal"}, {100000}, {0})

\* The same form, with a backend that may reject one of the settlement
\* writes.
AddExpenseRejecting ==
    AddExpenseOf({"equal"}, {100000}, 0..Len(UserOrder))

(***************************************************************************)
(* The ledger starts from a group whose three members all have accounts.   *)
(***************************************************************************)
EmailOf(u) == u \o "@x.com"

InitLedger ==
    /\ users = [u \in Users |-> NewProfile(EmailOf(u))]
    /\ groups = <<[members |-> UserOrder,
                   memberEmails |-> <<EmailOf("u2"), EmailOf("u3")>>,
                   pendingMemberEmails |-> <<>>,
                   createdBy |-> "u1"]>>
    /\ expenses = <<>>
    /\ settlements = <<>>
    /\ removed = [groups |-> {}, expenses |-> {}]
    /\ reminders = <<>>
    /\ sessions = [u \in Users |-> Idle]
    /\ memberList = [groupId |-> 1, memberIds |-> UserOrder,
                     pending |-> <<>>, failed |-> {}]
    /\ lastAlert = "none"

NextSplit == AddExpense

SpecSplit == InitLedger /\ [][NextSplit]_vars

(***************************************************************************)
(* app.js (dashboard): loadDashboardStats                                  *)
(***************************************************************************)
\* The pending documents of sts with userId = userId: the query of
\* loadDashboardStats.
PendingOf(sts, userId) ==
    {j \in DOMAIN sts : sts[j].userId = userId /\ sts[j].status = "pending"}

RECURSIVE SumAmounts(_, _)
SumAmounts(sts, S) ==
    IF S = {} THEN 0
    ELSE LET j == CHOOSE x \in S : TRUE
         IN  Abs(sts[j].amount) + SumAmounts(sts, S \ {j})

\* loadDashboardStats over the settlements sts: the two totals shown to
\* userId.
dashboardStats(sts, userId) ==
    [totalOwed |->
        SumAmounts(sts, {j \in PendingOf(sts, userId) : sts[j].amount > 0}),
     totalOwedToYou |->
        SumAmounts(sts, {j \in PendingOf(sts, userId) : ~(sts[j].amount > 0)})]

loadDashboardStats(userId) == dashboardStats(settlements, userId)

(***************************************************************************)
(* app.js (dashboard) and payments: window.settlePayment ->                *)
(* initiatePayment -> handlePaymentSuccess                                 *)
(***************************************************************************)
\* handlePaymentSuccess with an update of every settlement of the expense.
MarkPaidWholeExpense(sts, settlementId) ==
    [j \in DOMAIN sts |->
        IF sts[j].expenseId = sts[settlementId].expenseId
        THEN [sts[j] EXCEPT !.status = "paid"]
        ELSE sts[j]]

\* updateDoc(doc(db, 'settlements', settlementId), {status: 'paid', ...})
MarkPaid(sts, settlementId) == [sts EXCEPT ![settlementId].status = "paid"]

\* The store and the alert after handlePaymentSuccess for settlementId, run
\* in the session of account user.
handlePaymentSuccess(user, settlementId) ==
    [settlements |-> MarkPaid(settlements, settlementId),
     users |-> awardXP(users, user, 20),
     lastAlert |-> "payment_successful"]

\* The store and the alert after window.settlePayment(settlementId, amount)
\* in the session of account user; confirmed is the answer to the
\* confirm() dialog of initiatePayment.
windowSettlePayment(user, settlementId, confirmed) ==
    IF settlementId \notin DOMAIN settlements
    THEN [settlements |-> settlements, users |-> users,
          lastAlert |-> "settlement_not_found"]
    ELSE IF ~confirmed
    THEN [settlements |-> settlements, users |-> users,
          lastAlert |-> lastAlert]
    ELSE handlePaymentSuccess(user, settlementId)

WindowSettlePayment ==
    \E user \in DOMAIN users, settlementId \in 1..(Len(settlements) + 1),
       confirmed \in BOOLEAN :
      LET after == windowSettlePayment(user, settlementId, confirmed)
      IN  /\ after.users[user].xpPoints <= MaxXP
          /\ settlements' = after.settlements
          /\ users' = after.users
          /\ lastAlert' = after.lastAlert
          /\ UNCHANGED <<removed, reminders, groups, memberList, expenses,
                         sessions>>

\* The store and the alert after handlePaymentSuccess when its updateDoc is
\* rejected: the catch reports that the status was not updated, and the
\* award, which comes after the update, is not reached.
handlePaymentRejected(user, settlementId) ==
    [settlements |-> settlements, users |-> users,
     lastAlert |-> "payment_status_not_updated"]

\* window.settlePayment, confirmed, with the status update rejected.
WindowSettlePaymentRejected ==
    \E user \in DOMAIN users, settlementId \in DOMAIN settlements :
      LET after == handlePaymentRejected(user, settlementId)
      IN  /\ settlements' = after.settlements
          /\ users' = after.users
          /\ lastAlert' = after.lastAlert
          /\ UNCHANGED <<groups, memberList, expenses, sessions, removed,
                         reminders>>

NextFaulty ==
    \/ AddExpenseRejecting
    \/ WindowSettlePayment
    \/ WindowSettlePaymentRejected

\* The ledger on a backend that may reject writes.
SpecFaulty == InitLedger /\ [][NextFaulty]_vars

(***************************************************************************)
(* analytics.js: awardXP as the two requests it makes.  A call is in the   *)
(* session of the client that runs it: addExpense awards 10 to the payer,  *)
(* handlePaymentSuccess 20 to its caller.                                  *)
(***************************************************************************)
\* getDoc(userRef): the call keeps the xpPoints it read.
AwardXPRead ==
    \E client \in DOMAIN sessions, userId \in DOMAIN users,
       points \in {10, 20} :
      /\ sessions[client].pc = "idle"
      /\ sessions' = [sessions EXCEPT ![client] =
             [pc |-> "awardXP", userId |-> userId, points |-> points,
              xpPoints |-> users[userId].xpPoints]]
      /\ UNCHANGED <<users, groups, expenses, settlements, removed,
                     reminders, memberList, lastAlert>>

\* updateDoc(userRef, {xpPoints: newXP, level: newLevel}) with the sum
\* computed from what was read.
AwardXPWrite ==
    \E client \in DOMAIN sessions :
      /\ sessions[client].pc = "awardXP"
      /\ LET newXP == sessions[client].xpPoints + sessions[client].points
         IN  /\ newXP <= MaxXP
             /\ users' = [users EXCEPT
                    ![sessions[client].userId].xpPoints = newXP,
                    ![sessions[client].userId].level = (newXP \div 100) + 1]
      /\ sessions' = [sessions EXCEPT ![client] = Idle]
      /\ UNCHANGED <<groups, expenses, settlements, removed, reminders,
                     memberList, lastAlert>>

NextAward ==
    \/ AwardXPRead
    \/ AwardXPWrite

\* Calls of awardXP by three clients, in any interleaving.
SpecAward == InitLedger /\ [][NextAward]_vars

(***************************************************************************)
(* app.js (dashboard): the pending settlements list and its reminders      *)
(***************************************************************************)
\* The settlements loadPendingSettlements lists for viewer on which
\* createSettlementItem puts the 'Send Reminder' button: the pending records
\* with userId = viewer whose amount is not positive.
ReminderOffered(viewer) ==
    {j \in PendingOf(settlements, viewer) : ~(settlements[j].amount > 0)}

\* The document sendReminder(settlementId, userId) adds to 'reminders'.
sendReminder(settlementId, userId) ==
    [settlementId |-> settlementId, userId |-> userId,
     amount |-> settlements[settlementId].amount]

\* window.sendReminderToDebtor(settlementId), from a button of the list;
\* the settlement of a listed button exists.
SendReminderToDebtor ==
    \E viewer \in DOMAIN users :
      \E settlementId \in ReminderOffered(viewer) :
        LET debtorId == settlements[settlementId].userId
        IN  /\ Len(reminders) < MaxReminders
            /\ IF debtorId \in DOMAIN users
               THEN /\ reminders' = Append(reminders,
                           sendReminder(settlementId, debtorId))
                    /\ lastAlert' = "reminder_sent"
               ELSE /\ UNCHANGED reminders
                    /\ lastAlert' = "error_sending_reminder"
            /\ UNCHANGED <<users, groups, expenses, settlements, removed,
                           sessions, memberList>>

NextReminder ==
    \/ AddExpenseEqual
    \/ WindowSettlePayment
    \/ SendReminderToDebtor

\* The dashboard with its reminders.
SpecReminder == InitLedger /\ [][NextReminder]_vars

(***************************************************************************)
(* app.js (expense details): settlePayment.  The handler reads the expense *)
(* (getDoc) and, after the await, writes the settlementStatus map it built *)
(* from what it read (updateDoc replaces the field).                       *)
(***************************************************************************)
\* SettlePaymentRead without 'if (currentUser.uid === payee)'.
SettlePaymentReadAnyone ==
    \E user \in DOMAIN users, expenseId \in 1..(Len(expenses) + 1) :
      /\ sessions[user].pc = "idle"
      /\ IF ~ExpenseExists(expenseId)
         THEN /\ lastAlert' = "expense_not_found"
              /\ UNCHANGED sessions
         ELSE /\ sessions' = [sessions EXCEPT ![user] =
                     [pc |-> "write", expenseId |-> expenseId,
                      settlementStatus |->
                          expenses[expenseId].settlementStatus]]
              /\ UNCHANGED lastAlert
      /\ UNCHANGED <<removed, reminders, users, groups, memberList, expenses,
                     settlements>>

\* The first half of settlePayment(expenseId, amount), up to the getDoc.
SettlePaymentRead ==
    \E user \in DOMAIN users, expenseId \in 1..(Len(expenses) + 1) :
      /\ sessions[user].pc = "idle"
      /\ IF ~ExpenseExists(expenseId)
         THEN /\ lastAlert' = "expense_not_found"
              /\ UNCHANGED sessions
         ELSE IF user = expenses[expenseId].paidBy
         THEN /\ lastAlert' = "cannot_settle_own"
              /\ UNCHANGED sessions
         ELSE /\ sessions' = [sessions EXCEPT ![user] =
                     [pc |-> "write", expenseId |-> expenseId,
                      settlementStatus |->
                          expenses[expenseId].settlementStatus]]
              /\ UNCHANGED lastAlert
      /\ UNCHANGED <<removed, reminders, users, groups, memberList, expenses,
                     settlements>>

\* The settlementStatus map settlePayment writes.
updateData(snapshot, user) == snapshot \cup {user}

\* The second half: updateDoc(expenseRef, updateData) and the alert.
SettlePaymentWrite ==
    \E user \in DOMAIN users :
      /\ sessions[user].pc = "write"
      /\ expenses' = [expenses EXCEPT
             ![sessions[user].expenseId].settlementStatus =
                 updateData(sessions[user].settlementStatus, user)]
      /\ sessions' = [sessions EXCEPT ![user] = Idle]
      /\ lastAlert' = "settled"
      /\ UNCHANGED <<removed, reminders, users, groups, memberList,
                     settlements>>

Next ==
    \/ AddExpenseEqual
    \/ WindowSettlePayment
    \/ SettlePaymentRead
    \/ SettlePaymentWrite

Spec == InitLedger /\ [][Next]_vars

\* The dashboard alone: expenses are added and settlements are paid through
\* window.settlePayment.
NextDashboard ==
    \/ AddExpenseEqual
    \/ WindowSettlePayment

SpecDashboard == InitLedger /\ [][NextDashboard]_vars

(***************************************************************************)
(* Settlement creation run again for an expense that already has its       *)
(* settlements: calculateSettlements is exported and is what a retry of a  *)
(* failed settlement creation calls.                                       *)
(***************************************************************************)
RetryCalculateSettlements ==
    \E expenseId \in DOMAIN expenses :
      LET added == calculateSettlements(expenses[expenseId].groupId,
                                        expenses[expenseId], expenseId)
      IN  /\ Len(settlements) + Len(added) <= MaxSettlements
          /\ settlements' = settlements \o added
          /\ UNCHANGED <<removed, reminders, users, groups, memberList,
                         expenses, sessions,
                         lastAlert>>

NextRetry ==
    \/ AddExpense
    \/ RetryCalculateSettlements

SpecRetry == InitLedger /\ [][NextRetry]_vars

(***************************************************************************)
(* Group membership: groups.js (createGroup, addMembersToGroup),           *)
(* expenses.js (loadGroupMembers), auth.js (signUp).                       *)
(***************************************************************************)
\* What is typed between the commas of an email field: an address in lower
\* case or with a capital, an address with a blank before it, nothing.
Entries == {"u1@x.com", "u2@x.com", "U2@x.com", "u3@x.com", " u3@x.com", ""}

\* String.prototype.trim
Trim(e) == IF e = " u3@x.com" THEN "u3@x.com" ELSE e

\* String.prototype.toLowerCase
ToLowerCase(e) == IF e = "U2@x.com" THEN "u2@x.com" ELSE e

\* raw.split(',').map(e => e.trim()).filter(Boolean)
RECURSIVE SplitInput(_)
SplitInput(entries) ==
    IF entries = <<>> THEN <<>>
    ELSE IF Trim(Head(entries)) = "" THEN SplitInput(Tail(entries))
    ELSE <<Trim(Head(entries))>> \o SplitInput(Tail(entries))

\* The fields as typed: up to MaxEmails entries.
Inputs == UNION {[1..n -> Entries] : n \in 0..MaxEmails}

\* getDocs(query(collection(db, 'users'), where('email', '==', email))): the
\* ids of the matching accounts, in document order.
UsersByEmail(email) ==
    InOrder(UserOrder, {u \in DOMAIN users : users[u].email = email})

\* AddAll on an array instead of a Set: push without the membership test.
AddAllNoCheck(seq, more) == seq \o more

RECURSIVE AddAll(_, _)
\* Set.add of every element of more, on a Set kept in insertion order.
AddAll(seq, more) ==
    IF more = <<>> THEN seq
    ELSE AddAll(IF Head(more) \in Range(seq) THEN seq
                ELSE Append(seq, Head(more)), Tail(more))

\* Array.from(new Set(seq))
Distinct(seq) == AddAll(<<>>, seq)

RECURSIVE MapLower(_)
MapLower(seq) ==
    IF seq = <<>> THEN <<>>
    ELSE <<ToLowerCase(Head(seq))>> \o MapLower(Tail(seq))

\* signUp(email, password, name) for the account u.
SignUp ==
    \E u \in Users \ DOMAIN users :
    \E email \in {EmailOf(u), "U2@x.com"} :
      /\ ToLowerCase(Trim(email)) = EmailOf(u)
      /\ users' = [x \in (DOMAIN users) \cup {u} |->
                      IF x = u THEN NewProfile(ToLowerCase(Trim(email)))
                      ELSE users[x]]
      /\ UNCHANGED <<groups, expenses, settlements, sessions, memberList,
                     lastAlert, removed, reminders>>

RECURSIVE createGroupLoop(_, _, _)
\* The loop of createGroup over rawMemberEmails: the member ids and the
\* pending emails it ends with.
createGroupLoop(rawMemberEmails, memberIds, pendingMemberEmails) ==
    IF rawMemberEmails = <<>>
    THEN [memberIds |-> memberIds, pendingMemberEmails |-> pendingMemberEmails]
    ELSE LET rawEmail == Head(rawMemberEmails)
             lcEmail == ToLowerCase(rawEmail)
             newLc == SelectSeq(UsersByEmail(lcEmail),
                                LAMBDA u : u \notin Range(memberIds))
             idsLc == memberIds \o newLc
             newRaw == IF newLc = <<>> /\ rawEmail # lcEmail
                       THEN SelectSeq(UsersByEmail(rawEmail),
                                      LAMBDA u : u \notin Range(idsLc))
                       ELSE <<>>
             foundUid == newLc # <<>> \/ newRaw # <<>>
         IN  createGroupLoop(Tail(rawMemberEmails), idsLc \o newRaw,
                             IF foundUid THEN pendingMemberEmails
                             ELSE Append(pendingMemberEmails, rawEmail))

\* createGroup in the session of currentUser, with the members field as
\* typed: one of inputs.
CreateGroupOf(inputs) ==
    \E currentUser \in DOMAIN users, membersInput \in inputs :
      LET rawMemberEmails == SplitInput(membersInput)
          found == createGroupLoop(rawMemberEmails, <<currentUser>>, <<>>)
          groupData == [members |-> found.memberIds,
                        memberEmails |-> MapLower(rawMemberEmails),
                        pendingMemberEmails |-> found.pendingMemberEmails,
                        createdBy |-> currentUser]
      IN  /\ Len(groups) < MaxGroups
          /\ groups' = Append(groups, groupData)
          /\ lastAlert' = "group_created"
          /\ UNCHANGED <<users, expenses, settlements, sessions, memberList,
                         removed, reminders>>

CreateGroup == CreateGroupOf(Inputs)

RECURSIVE addMembersLoop(_, _, _, _)
\* The loop of addMembersToGroup over emailsRaw.
addMembersLoop(emailsRaw, members, memberEmails, pendingMemberEmails) ==
    IF emailsRaw = <<>>
    THEN [members |-> members, memberEmails |-> memberEmails,
          pendingMemberEmails |-> pendingMemberEmails]
    ELSE LET email == Head(emailsRaw)
             lc == ToLowerCase(email)
             usersSnap == UsersByEmail(lc)
         IN  addMembersLoop(Tail(emailsRaw), AddAll(members, usersSnap),
                            AddAll(memberEmails, <<lc>>),
                            IF usersSnap # <<>> THEN pendingMemberEmails
                            ELSE AddAll(pendingMemberEmails, <<email>>))

\* The group document addMembersToGroup writes for the group it read.
addMembersToGroup(group, emailsRaw) ==
    LET merged == addMembersLoop(emailsRaw, Distinct(group.members),
                                 Distinct(MapLower(group.memberEmails)),
                                 Distinct(group.pendingMemberEmails))
    IN  [group EXCEPT !.members = merged.members,
                      !.memberEmails = merged.memberEmails,
                      !.pendingMemberEmails = merged.pendingMemberEmails]

\* window.addMembersToGroup(groupId), with the emails field as typed.
AddMembersToGroup ==
    \E groupId \in 1..(Len(groups) + 1), input \in Inputs :
      LET emailsRaw == SplitInput(input)
      IN  /\ emailsRaw # <<>>
          /\ IF ~GroupExists(groupId)
             THEN /\ lastAlert' = "group_not_found"
                  /\ UNCHANGED groups
             ELSE /\ groups' = [groups EXCEPT ![groupId] =
                         addMembersToGroup(groups[groupId], emailsRaw)]
                  /\ lastAlert' = "members_updated"
          /\ UNCHANGED <<users, expenses, settlements, sessions, memberList,
                         removed, reminders>>

\* What expenses.js imports from the Firestore SDK.
ExpensesImports ==
    {"collection", "addDoc", "getDocs", "query", "where", "orderBy", "doc",
     "getDoc"}

\* The addresses loadGroupMembers looks up for the pending emails of a
\* group.
LookupKeys(group) ==
    UNION {{Trim(e), ToLowerCase(Trim(e))} :
              e \in Range(group.pendingMemberEmails)}

\* The lookups that throw (a backend error) during one run of
\* loadGroupMembers: none, or those of one address.
Failures(group) == {{}} \cup {{k} : k \in LookupKeys(group)}

RECURSIVE resolveMemberEmails(_, _, _)
\* The first loop of loadGroupMembers: the accounts of the member emails
\* join memberIds; a lookup that throws is logged and the loop goes on.
resolveMemberEmails(memberEmails, failing, memberIds) ==
    IF memberEmails = <<>> THEN memberIds
    ELSE LET email == Head(memberEmails)
             emailLc == ToLowerCase(email)
             usersByEmailLc == UsersByEmail(emailLc)
             usersByEmailRaw == IF usersByEmailLc = <<>> /\ email # emailLc
                                   /\ email \notin failing
                                THEN UsersByEmail(email) ELSE <<>>
         IN  IF emailLc \in failing
             THEN resolveMemberEmails(Tail(memberEmails), failing, memberIds)
             ELSE resolveMemberEmails(Tail(memberEmails), failing,
                      AddAll(AddAll(memberIds, usersByEmailLc),
                             usersByEmailRaw))

RECURSIVE resolvePendingAborting(_, _, _, _, _, _)
\* resolvePending with the try around the whole loop: the first lookup that
\* throws ends the loop.
resolvePendingAborting(pendingEmails, failing, memberIds, stillPending, newlyResolvedEmails, failed) ==
    IF pendingEmails = <<>>
    THEN [memberIds |-> memberIds, stillPending |-> stillPending,
          newlyResolvedEmails |-> newlyResolvedEmails, failed |-> failed]
    ELSE LET email == Trim(Head(pendingEmails))
             lc == ToLowerCase(email)
             s1 == UsersByEmail(lc)
             secondLookup == s1 = <<>> /\ lc # email
             s2 == IF secondLookup THEN UsersByEmail(email) ELSE <<>>
             threw == lc \in failing \/ (secondLookup /\ email \in failing)
             resolved == s1 # <<>> \/ s2 # <<>>
         IN  IF email # "" /\ threw
             THEN [memberIds |-> memberIds,
                   stillPending |-> Append(stillPending, email),
                   newlyResolvedEmails |-> newlyResolvedEmails,
                   failed |-> failed \cup {email}]
             ELSE resolvePendingAborting(Tail(pendingEmails), failing,
                      AddAll(AddAll(memberIds, s1), s2),
                      IF resolved \/ email = "" THEN stillPending
                      ELSE Append(stillPending, email),
                      IF resolved THEN Append(newlyResolvedEmails, email)
                      ELSE newlyResolvedEmails,
                      failed)

RECURSIVE resolvePending(_, _, _, _, _, _)
\* The second loop of loadGroupMembers, over pendingEmails.  failed
\* collects the emails whose lookup threw (the catch pushes them to
\* stillPending).
resolvePending(pendingEmails, failing, memberIds, stillPending, newlyResolvedEmails, failed) ==
    IF pendingEmails = <<>>
    THEN [memberIds |-> memberIds, stillPending |-> stillPending,
          newlyResolvedEmails |-> newlyResolvedEmails, failed |-> failed]
    ELSE LET email == Trim(Head(pendingEmails))
             lc == ToLowerCase(email)
             s1 == UsersByEmail(lc)
             secondLookup == s1 = <<>> /\ lc # email
             s2 == IF secondLookup THEN UsersByEmail(email) ELSE <<>>
             threw == lc \in failing \/ (secondLookup /\ email \in failing)
             resolved == s1 # <<>> \/ s2 # <<>>
         IN  IF email = ""
             THEN resolvePending(Tail(pendingEmails), failing, memberIds,
                                 stillPending, newlyResolvedEmails, failed)
             ELSE IF threw
             THEN resolvePending(Tail(pendingEmails), failing, memberIds,
                                 Append(stillPending, email),
                                 newlyResolvedEmails, failed \cup {email})
             ELSE resolvePending(Tail(pendingEmails), failing,
                      AddAll(AddAll(memberIds, s1), s2),
                      IF resolved THEN stillPending
                      ELSE Append(stillPending, email),
                      IF resolved THEN Append(newlyResolvedEmails, email)
                      ELSE newlyResolvedEmails,
                      failed)

\* Both loops of loadGroupMembers on the group document it read.
resolveGroup(group, failing) ==
    resolvePending(group.pendingMemberEmails, failing,
                   resolveMemberEmails(group.memberEmails, failing,
                                       Distinct(group.members)),
                   <<>>, <<>>, {})

\* loadGroupMembers with updateDoc imported, so that its write happens.
loadGroupMembersWriting(group, imports, failing) ==
    LET memberEmails == group.memberEmails
        pendingEmails == group.pendingMemberEmails
        second == resolveGroup(group, failing)
        updatedPending ==
            SelectSeq(pendingEmails,
                      LAMBDA e : e \notin Range(second.newlyResolvedEmails))
    IN  [group |->
            IF second.newlyResolvedEmails # <<>>
            THEN [group EXCEPT
                     !.members = second.memberIds,
                     !.memberEmails = Distinct(memberEmails \o
                         MapLower(second.newlyResolvedEmails)),
                     !.pendingMemberEmails = updatedPending]
            ELSE group,
         memberIds |->
            SelectSeq(second.memberIds, LAMBDA u : u \in DOMAIN users),
         pending |-> SelectSeq(updatedPending, LAMBDA e : Trim(e) # ""),
         failed |-> second.failed]

\* loadGroupMembers for the group document it read: the document the store
\* holds afterwards, the members and pending emails it puts on the form,
\* and the pending emails whose lookup it logged as failed.  The write is
\* an updateDoc call inside a try block; where the module does not import
\* updateDoc the call throws a ReferenceError, the catch logs it, and the
\* document stays as it was.
loadGroupMembers(group, imports, failing) ==
    LET memberEmails == group.memberEmails
        pendingEmails == group.pendingMemberEmails
        second == resolveGroup(group, failing)
        updatedPending ==
            SelectSeq(pendingEmails,
                      LAMBDA e : e \notin Range(second.newlyResolvedEmails))
    IN  [group |->
            IF second.newlyResolvedEmails # <<>> /\ "updateDoc" \in imports
            THEN [group EXCEPT
                     !.members = second.memberIds,
                     !.memberEmails = Distinct(memberEmails \o
                         MapLower(second.newlyResolvedEmails)),
                     !.pendingMemberEmails = updatedPending]
            ELSE group,
         memberIds |->
            SelectSeq(second.memberIds, LAMBDA u : u \in DOMAIN users),
         pending |-> SelectSeq(updatedPending, LAMBDA e : Trim(e) # ""),
         failed |-> second.failed]

\* loadGroupMembers(groupId), as the add-expense form runs it.
LoadGroupMembers ==
    \E groupId \in {g \in DOMAIN groups : GroupExists(g)} :
    \E failing \in Failures(groups[groupId]) :
      LET loaded == loadGroupMembers(groups[groupId], ExpensesImports,
                                     failing)
      IN  /\ groups' = [groups EXCEPT ![groupId] = loaded.group]
          /\ memberList' = [groupId |-> groupId,
                            memberIds |-> loaded.memberIds,
                            pending |-> loaded.pending,
                            failed |-> loaded.failed]
          /\ UNCHANGED <<users, expenses, settlements, sessions, lastAlert,
                         removed, reminders>>

\* Membership starts with the account u1 and no group.
InitMembers ==
    /\ users = [u \in {"u1"} |-> NewProfile(EmailOf(u))]
    /\ groups = <<>>
    /\ expenses = <<>>
    /\ settlements = <<>>
    /\ removed = [groups |-> {}, expenses |-> {}]
    /\ reminders = <<>>
    /\ sessions = [u \in Users |-> Idle]
    /\ memberList = [groupId |-> 0, memberIds |-> <<>>, pending |-> <<>>,
                     failed |-> {}]
    /\ lastAlert = "none"

NextMembers ==
    \/ SignUp
    \/ CreateGroup
    \/ AddMembersToGroup
    \/ LoadGroupMembers

SpecMembers == InitMembers /\ [][NextMembers]_vars

(***************************************************************************)
(* window.addMembersToGroup in two steps.  The handler reads the group     *)
(* (getDoc), awaits the account lookups and then writes the three      *)
(* membership arrays it built from what it read (updateDoc of members,     *)
(* memberEmails, pendingMemberEmails); other sessions run between the two. *)
(***************************************************************************)
\* The emails field with one address typed into it.
OneEntry == [1..1 -> {"u2@x.com", "U2@x.com", "u3@x.com"}]

\* From the click to the getDoc.  The button is on the details of a group,
\* which the groups page lists for the members of the group.
AddMembersRead ==
    \E user \in DOMAIN users, groupId \in 1..(Len(groups) + 1),
       input \in OneEntry :
      LET emailsRaw == SplitInput(input)
      IN  /\ emailsRaw # <<>>
          /\ sessions[user].pc = "idle"
          /\ Cardinality({u \in DOMAIN sessions :
                             sessions[u].pc = "addMembers"}) < MaxWriters
          /\ IF ~GroupExists(groupId)
             THEN /\ lastAlert' = "group_not_found"
                  /\ UNCHANGED sessions
             ELSE /\ user \in Range(groups[groupId].members)
                  /\ sessions' = [sessions EXCEPT ![user] =
                         [pc |-> "addMembers", groupId |-> groupId,
                          group |-> groups[groupId], emailsRaw |-> emailsRaw]]
                  /\ UNCHANGED lastAlert
          /\ UNCHANGED <<users, groups, expenses, settlements, memberList,
                         removed, reminders>>

\* The lookups and the updateDoc, on the snapshot of the read.
AddMembersWrite ==
    \E user \in DOMAIN users :
      /\ sessions[user].pc = "addMembers"
      /\ LET written == addMembersToGroup(sessions[user].group,
                                          sessions[user].emailsRaw)
         IN  groups' = [groups EXCEPT
                 ![sessions[user].groupId].members = written.members,
                 ![sessions[user].groupId].memberEmails =
                     written.memberEmails,
                 ![sessions[user].groupId].pendingMemberEmails =
                     written.pendingMemberEmails]
      /\ sessions' = [sessions EXCEPT ![user] = Idle]
      /\ lastAlert' = "members_updated"
      /\ UNCHANGED <<removed, reminders, users, expenses, settlements,
                     memberList>>

\* createGroup with one entry in the members field.
CreateGroupOne == CreateGroupOf(OneEntry)

\* The accounts u1 and u2 exist, u3 has not signed up, there is no group.
InitShared ==
    /\ users = [u \in {"u1", "u2"} |-> NewProfile(EmailOf(u))]
    /\ groups = <<>>
    /\ expenses = <<>>
    /\ settlements = <<>>
    /\ removed = [groups |-> {}, expenses |-> {}]
    /\ reminders = <<>>
    /\ sessions = [u \in Users |-> Idle]
    /\ memberList = [groupId |-> 0, memberIds |-> <<>>, pending |-> <<>>,
                     failed |-> {}]
    /\ lastAlert = "none"

NextShared ==
    \/ CreateGroupOne
    \/ AddMembersRead
    \/ AddMembersWrite

\* Membership written by sessions that interleave.
SpecShared == InitShared /\ [][NextShared]_vars

(***************************************************************************)
(* Resolution alone: groups are created with two addresses, accounts sign  *)
(* up, and loadGroupMembers runs, with or without a lookup that fails.     *)
(***************************************************************************)
\* The members field with two addresses typed into it.
TwoEntries == [1..2 -> {"u2@x.com", "U2@x.com", "u3@x.com"}]

CreateGroupTwo == CreateGroupOf(TwoEntries)

NextResolve ==
    \/ SignUp
    \/ CreateGroupTwo
    \/ LoadGroupMembers

SpecResolve == InitMembers /\ [][NextResolve]_vars

(***************************************************************************)
(* app.js (expense details): loadExpenseDetails.  The page of an account   *)
(* is kept in its session: the split it shows (stored, or derived when the *)
(* expense has none) and the two totals of the viewer.                     *)
(***************************************************************************)
\* An object without keys.
NoSplit == [m \in {} |-> 0]

\* The ids the fallback collects for group g: g.members and, for every
\* address of g.memberEmails, the accounts stored under its lower-case form
\* and under the address as written.
GroupAccounts(g) ==
    Range(g.members) \cup
        UNION {Range(UsersByEmail(ToLowerCase(g.memberEmails[k]))) \cup
               Range(UsersByEmail(g.memberEmails[k])) :
                   k \in DOMAIN g.memberEmails}

\* 'members' before the payer is removed: expense.splitMembers when it is a
\* non-empty array, else what the group gives; a group that does not exist
\* or a read that throws (failing) leaves it empty.
DetailMembers(expense, failing) ==
    IF expense.splitMembers # {} THEN expense.splitMembers
    ELSE IF failing \/ ~GroupExists(expense.groupId) THEN {}
    ELSE GroupAccounts(groups[expense.groupId])

\* derivedSplit without 'members.filter(m => m && m !== payer)'.
derivedSplitKeepingPayer(expense, failing) ==
    LET members == DetailMembers(expense, failing)
    IN  IF members # {}
        THEN [m \in members |->
                 Quotient(expense.amount, Cardinality(members))]
        ELSE NoSplit

\* The split derived for an expense stored without one; both branches of
\* the splitType test compute the same mapping.
derivedSplit(expense, failing) ==
    LET members == DetailMembers(expense, failing) \ {expense.paidBy}
    IN  IF members # {}
        THEN [m \in members |->
                 Quotient(expense.amount, Cardinality(members))]
        ELSE NoSplit

\* 'split' after step 3.
DetailSplit(expense, failing) ==
    IF DOMAIN expense.splitAmounts = {} THEN derivedSplit(expense, failing)
    ELSE expense.splitAmounts

\* The userId of the local settlements of step 4.
LocalDebtors(expense, split) ==
    {m \in DOMAIN split : m # expense.paidBy /\ split[m] > 0}

\* youOwe after the loop of step 5.
YouOwe(expense, split, viewer) ==
    IF viewer \in LocalDebtors(expense, split)
           /\ StatusOf(expense, viewer) # "paid"
    THEN split[viewer] ELSE 0

\* owedToYou after the loop of step 5.
OwedToYou(expense, split, viewer) ==
    IF expense.paidBy = viewer
    THEN SumOver(split, LocalDebtors(expense, split)) ELSE 0

\* The page loadExpenseDetails(expenseId) renders for viewer.
ExpensePage(expenseId, viewer, failing) ==
    LET expense == expenses[expenseId]
        split == DetailSplit(expense, failing)
    IN  [pc |-> "idle", expenseId |-> expenseId, settlementStatus |-> {},
         failing |-> failing, split |-> split,
         youOwe |-> YouOwe(expense, split, viewer),
         owedToYou |-> OwedToYou(expense, split, viewer)]

LoadExpenseDetails ==
    \E viewer \in DOMAIN users, expenseId \in 1..(Len(expenses) + 1),
       failing \in BOOLEAN :
      /\ sessions[viewer].pc = "idle"
      /\ sessions' = [sessions EXCEPT ![viewer] =
             IF ExpenseExists(expenseId)
             THEN ExpensePage(expenseId, viewer, failing)
             ELSE Idle]
      /\ UNCHANGED <<users, groups, expenses, settlements, removed, reminders,
                     memberList, lastAlert>>

\* The groups and the expenses the page is loaded for: a group of u1 alone
\* or of u1 and u3, with or without an invited address of u2, and one
\* expense, stored with its split or without one.
DetailGroups ==
    {[members |-> ms, memberEmails |-> es, pendingMemberEmails |-> <<>>,
      createdBy |-> "u1"] :
        ms \in {<<"u1">>, <<"u1", "u3">>},
        es \in {<<>>, <<"u2@x.com">>, <<"U2@x.com">>}}

\* The amounts of the expenses stored without a split: those of the form
\* and 100.001, which two members do not divide exactly.
DetailAmounts == Amounts \cup {100001}

DetailExpenses ==
    {[groupId |-> 1, amount |-> a, paidBy |-> p, splitType |-> t,
      splitMembers |-> sm, splitAmounts |-> sa, settlementStatus |-> {}] :
        a \in DetailAmounts, p \in Users, t \in {"equal", "custom"},
        sm \in SUBSET Users, sa \in {NoSplit}}
    \cup
    {[groupId |-> 1, amount |-> 100000, paidBy |-> p, splitType |-> "equal",
      splitMembers |-> Users, splitAmounts |-> EqualSplit(100000, Users),
      settlementStatus |-> {}] : p \in Users}

InitDetails ==
    /\ users = [u \in Users |-> NewProfile(EmailOf(u))]
    /\ groups \in {<<g>> : g \in DetailGroups}
    /\ expenses \in {<<e>> : e \in DetailExpenses}
    /\ settlements = IF DOMAIN expenses[1].splitAmounts = {} THEN <<>>
                     ELSE calculateSettlements(1, expenses[1], 1)
    /\ removed = [groups |-> {}, expenses |-> {}]
    /\ reminders = <<>>
    /\ sessions = [u \in Users |-> Idle]
    /\ memberList = [groupId |-> 1, memberIds |-> groups[1].members,
                     pending |-> <<>>, failed |-> {}]
    /\ lastAlert = "none"

NextDetails == LoadExpenseDetails

\* The page over every stored expense and group of DetailExpenses and
\* DetailGroups.
SpecDetails == InitDetails /\ [][NextDetails]_vars

NextSettle ==
    \/ SettlePaymentRead
    \/ SettlePaymentWrite

\* settlePayment alone, over every stored expense of DetailExpenses.
SpecSettle == InitDetails /\ [][NextSettle]_vars

NextPage ==
    \/ AddExpenseEqual
    \/ SettlePaymentRead
    \/ SettlePaymentWrite
    \/ LoadExpenseDetails

\* The page in the ledger: expenses are added, settled from the page, and
\* looked at.
SpecPage == InitLedger /\ [][NextPage]_vars

(***************************************************************************)
(* groups.js: window.deleteGroup, in the three steps its awaits divide it  *)
(* into: the getDoc of the group with the checks, the query of the         *)
(* expenses with their deletions (Promise.all), the deletion of the group. *)
(***************************************************************************)
\* The expenses the query where('groupId', '==', groupId) returns.
ExpensesOfGroup(groupId) ==
    {i \in DOMAIN expenses : ExpenseExists(i) /\ expenses[i].groupId = groupId}

\* Promise.all that resolves whatever the deletions did.
PromiseAllSettled(failed) == TRUE

\* await Promise.all(deletions) resolves when no deletion was rejected, and
\* throws otherwise.
PromiseAll(failed) == failed = {}

\* DeleteGroupRead without 'if (groupData.createdBy !== currentUser.uid)'.
DeleteGroupReadAnyone ==
    \E user \in DOMAIN users, groupId \in 1..(Len(groups) + 1),
       confirmed \in BOOLEAN :
      /\ sessions[user].pc = "idle"
      /\ IF ~confirmed
         THEN UNCHANGED <<sessions, lastAlert>>
         ELSE IF ~GroupExists(groupId)
         THEN /\ lastAlert' = "group_not_found"
              /\ UNCHANGED sessions
         ELSE /\ sessions' = [sessions EXCEPT ![user] =
                     [pc |-> "deleteExpenses", groupId |-> groupId,
                      queried |-> {}]]
              /\ UNCHANGED lastAlert
      /\ UNCHANGED <<users, groups, expenses, settlements, removed, reminders,
                     memberList>>

\* From the click to the ownership check.
DeleteGroupRead ==
    \E user \in DOMAIN users, groupId \in 1..(Len(groups) + 1),
       confirmed \in BOOLEAN :
      /\ sessions[user].pc = "idle"
      /\ IF ~confirmed
         THEN UNCHANGED <<sessions, lastAlert>>
         ELSE IF ~GroupExists(groupId)
         THEN /\ lastAlert' = "group_not_found"
              /\ UNCHANGED sessions
         ELSE IF groups[groupId].createdBy # user
         THEN /\ lastAlert' = "only_creator_can_delete"
              /\ UNCHANGED sessions
         ELSE /\ sessions' = [sessions EXCEPT ![user] =
                     [pc |-> "deleteExpenses", groupId |-> groupId,
                      queried |-> {}]]
              /\ UNCHANGED lastAlert
      /\ UNCHANGED <<users, groups, expenses, settlements, removed, reminders,
                     memberList>>

\* The query of the group's expenses and their deleteDoc calls; failed are
\* the deletions the backend rejects.
DeleteGroupExpenses ==
    \E user \in DOMAIN users :
      /\ sessions[user].pc = "deleteExpenses"
      /\ LET queried == ExpensesOfGroup(sessions[user].groupId)
         IN  \E failed \in SUBSET queried :
               /\ removed' = [removed EXCEPT
                      !.expenses = @ \cup (queried \ failed)]
               /\ IF PromiseAll(failed)
                  THEN /\ sessions' = [sessions EXCEPT ![user] =
                              [pc |-> "deleteGroup",
                               groupId |-> sessions[user].groupId,
                               queried |-> queried]]
                       /\ UNCHANGED lastAlert
                  ELSE /\ sessions' = [sessions EXCEPT ![user] = Idle]
                       /\ lastAlert' = "error_deleting_group"
      /\ UNCHANGED <<users, groups, expenses, settlements, memberList,
                     reminders>>

\* deleteDoc(groupRef) and the alert; the deletion itself may be rejected.
DeleteGroupDoc ==
    \E user \in DOMAIN users, rejected \in BOOLEAN :
      /\ sessions[user].pc = "deleteGroup"
      /\ IF rejected
         THEN /\ lastAlert' = "error_deleting_group"
              /\ UNCHANGED removed
         ELSE /\ removed' = [removed EXCEPT
                     !.groups = @ \cup {sessions[user].groupId}]
              /\ lastAlert' = "group_deleted"
      /\ sessions' = [sessions EXCEPT ![user] = Idle]
      /\ UNCHANGED <<users, groups, expenses, settlements, memberList,
                     reminders>>

NextDelete ==
    \/ AddExpenseEqual
    \/ DeleteGroupRead
    \/ DeleteGroupExpenses
    \/ DeleteGroupDoc

\* Expenses are added to the group and its creator deletes it.
SpecDelete == InitLedger /\ [][NextDelete]_vars

(***************************************************************************)
(* Claims about addExpense (SpecSplit).                                    *)
(***************************************************************************)
ShareSum(expense) == SumOver(expense.splitAmounts, DOMAIN expense.splitAmounts)

\* C1: for every expense addExpense has stored, under the equal and under
\* the custom policy, the values of splitAmounts sum to the amount within
\* 0.01.
C1_ShareSumWithinTolerance ==
    \A i \in DOMAIN expenses :
        Abs(ShareSum(expenses[i]) - expenses[i].amount) <= Tolerance

\* A stored expense whose shares do not sum to the amount exactly.
C1_Witness ==
    \E i \in DOMAIN expenses :
        /\ expenses[i].splitType \in {"equal", "custom"}
        /\ ShareSum(expenses[i]) # expenses[i].amount

\* C2: an addExpense that ends with the split-mismatch alert has left the
\* expenses, the settlements and the accounts (XP) as they were, and no
\* submission with a custom split that is off by more than 0.01 ever put an
\* expense into the store.
C2_MismatchCommitsNothing ==
    [][/\ (lastAlert' = "split_mismatch"
              => UNCHANGED <<expenses, settlements, users>>)
       /\ \A i \in DOMAIN expenses' :
              (i \notin DOMAIN expenses /\ expenses'[i].splitType = "custom")
                  => Abs(ShareSum(expenses'[i]) - expenses'[i].amount)
                         <= Tolerance]_vars

\* addExpense has just rejected a custom split.
C2_Witness == lastAlert = "split_mismatch"

C3_OneSettlementPerTriple ==
    \A j, k \in DOMAIN settlements :
        (/\ settlements[j].userId = settlements[k].userId
         /\ settlements[j].owedTo = settlements[k].owedTo
         /\ settlements[j].expenseId = settlements[k].expenseId) => j = k

\* C4: mark-paid applied to a debt that is already paid succeeds and changes
\* nothing: handlePaymentSuccess on a paid settlement leaves the settlements
\* and the accounts as they are, and settlePayment on an expense by a member
\* already marked paid writes the settlementStatus it read.
C4_MarkPaidIdempotent ==
    /\ \A j \in DOMAIN settlements : \A u \in DOMAIN users :
           settlements[j].status = "paid"
               => LET after == handlePaymentSuccess(u, j)
                  IN  /\ after.lastAlert = "payment_successful"
                      /\ after.settlements = settlements
                      /\ after.users = users
    /\ \A i \in DOMAIN expenses : \A u \in DOMAIN users :
           StatusOf(expenses[i], u) = "paid"
               => updateData(expenses[i].settlementStatus, u)
                      = expenses[i].settlementStatus

\* C5: window.settlePayment by an account that is not the userId of the
\* settlement does not end in 'payment successful' and leaves the status of
\* the settlement as it is; settlePayment on an expense changes no other
\* member's entry of settlementStatus.
C5_NonDebtorForbidden ==
    /\ \A j \in DOMAIN settlements :
       \A u \in (DOMAIN users) \ {settlements[j].userId} :
           LET after == windowSettlePayment(u, j, TRUE)
           IN  /\ after.lastAlert # "payment_successful"
               /\ after.settlements[j].status = settlements[j].status
    /\ \A i \in DOMAIN expenses : \A u \in DOMAIN users :
           updateData(expenses[i].settlementStatus, u)
               \subseteq (expenses[i].settlementStatus \cup {u})

\* C6: no step takes a debt from paid back to pending, neither the status of
\* a settlement nor a member's entry in the settlementStatus of an expense.
C6_PaidStaysPaid ==
    [][/\ \A j \in DOMAIN settlements :
              settlements[j].status = "paid" => settlements'[j].status = "paid"
       /\ \A i \in DOMAIN expenses : \A u \in Users :
              StatusOf(expenses[i], u) = "paid"
                  => StatusOf(expenses'[i], u) = "paid"]_vars

(***************************************************************************)
(* C8: balances.                                                           *)
(***************************************************************************)
\* The settlement documents of member m for expense i.
DebtDocs(i, m) ==
    {j \in DOMAIN settlements :
        settlements[j].expenseId = i /\ settlements[j].userId = m}

HasPaid(i, m) == \E j \in DebtDocs(i, m) : settlements[j].status = "paid"

\* The members who owe a share of expense i: the keys of its splitAmounts
\* other than the payer.
Debtors(i) == (DOMAIN expenses[i].splitAmounts) \ {expenses[i].paidBy}

RECURSIVE SumShares(_, _)
\* The shares of m over the expenses in S.
SumShares(m, S) ==
    IF S = {} THEN 0
    ELSE LET i == CHOOSE x \in S : TRUE
         IN  expenses[i].splitAmounts[m] + SumShares(m, S \ {i})

RECURSIVE SumOthers(_)
\* What the members other than the payer owe, over the expenses in S.
SumOthers(S) ==
    IF S = {} THEN 0
    ELSE LET i == CHOOSE x \in S : TRUE
         IN  SumOver(expenses[i].splitAmounts, Debtors(i)) + SumOthers(S \ {i})

\* Every member's totalOwed is the sum of the member's shares not yet paid,
\* and every payer's totalOwedToYou is what the other members of the payer's
\* expenses owe (while the payer's own record is pending).
Reconciled ==
    \A m \in Users :
        /\ loadDashboardStats(m).totalOwed =
               SumShares(m, {i \in DOMAIN expenses :
                                m \in Debtors(i) /\ ~HasPaid(i, m)})
        /\ loadDashboardStats(m).totalOwedToYou =
               SumOthers({i \in DOMAIN expenses :
                             expenses[i].paidBy = m /\ ~HasPaid(i, m)})

\* Paying a pending settlement (handlePaymentSuccess, whoever runs it) takes
\* its amount off the totalOwed of its debtor and leaves the totalOwed of
\* everybody else as it was.
PaymentEffect ==
    \A j \in DOMAIN settlements : \A u \in DOMAIN users :
        settlements[j].status = "pending"
            => LET after == handlePaymentSuccess(u, j).settlements
               IN  \A m \in Users :
                       dashboardStats(after, m).totalOwed =
                           IF m = settlements[j].userId
                              /\ settlements[j].amount > 0
                           THEN loadDashboardStats(m).totalOwed
                                    - settlements[j].amount
                           ELSE loadDashboardStats(m).totalOwed

\* C8: for expenses split equally through addExpense, every member other
\* than the payer owes (totalOwed) exactly the member's unpaid shares, the
\* payer is owed (totalOwedToYou) the sum of the other members' shares, and
\* a payment brings the paying debtor's totalOwed down by the paid share (to
\* 0 with one expense) and leaves every other member's totalOwed unchanged.
C8_BalancesReconcile == Reconciled /\ PaymentEffect

\* One expense split equally among the payer u1 and u2, u3; u2 has paid and
\* owes 0, u3 still owes the share, u1 is owed both shares.
C8_Witness ==
    /\ Len(expenses) = 1
    /\ expenses[1].paidBy = "u1"
    /\ expenses[1].splitMembers = {"u1", "u2", "u3"}
    /\ HasPaid(1, "u2") /\ ~HasPaid(1, "u3") /\ ~HasPaid(1, "u1")
    /\ loadDashboardStats("u2").totalOwed = 0
    /\ loadDashboardStats("u3").totalOwed = expenses[1].splitAmounts["u3"]
    /\ loadDashboardStats("u1").totalOwedToYou =
           expenses[1].splitAmounts["u2"] + expenses[1].splitAmounts["u3"]

(***************************************************************************)
(* Claims about membership resolution (SpecMembers).                       *)
(***************************************************************************)
\* The accounts a pending email resolves to: by the lower-cased address,
\* else by the address as written.
AccountsOf(email) ==
    IF UsersByEmail(ToLowerCase(Trim(email))) # <<>>
    THEN Range(UsersByEmail(ToLowerCase(Trim(email))))
    ELSE Range(UsersByEmail(Trim(email)))

\* C7: when loadGroupMembers has run for a group whose pending emails are E,
\* of which the emails M have accounts, the stored group has the accounts of
\* M added to its members and E \ M left pending.
C7_ResolutionPromotesExactly ==
    [][memberList' # memberList
          => LET g == memberList'.groupId
                 E == Range(groups[g].pendingMemberEmails)
                 M == {e \in E : AccountsOf(e) # {}}
             IN  /\ Range(groups'[g].members) =
                        Range(groups[g].members)
                            \cup UNION {AccountsOf(e) : e \in M}
                 /\ Range(groups'[g].pendingMemberEmails) = E \ M]_vars

(***************************************************************************)
(* Claims about the settlement records calculateSettlements writes.        *)
(***************************************************************************)
\* C11: the settlements of an expense whose userId is not the payer are
\* exactly one pending record (member, payer, share) per entry of
\* splitAmounts with member # payer and share > 0; an entry whose share is 0
\* has no settlement record.
C11_SettlementsForPositiveShares ==
    \A i \in DOMAIN expenses :
        LET e == expenses[i]
            directed == {j \in DOMAIN settlements :
                            settlements[j].expenseId = i
                                /\ settlements[j].userId # e.paidBy}
        IN  /\ {<<settlements[j].userId, settlements[j].owedTo,
                   settlements[j].amount, settlements[j].status>> :
                     j \in directed}
                = {<<m, e.paidBy, e.splitAmounts[m], "pending">> :
                     m \in {x \in Debtors(i) : e.splitAmounts[x] > 0}}
            /\ \A j \in directed : settlements[j].amount > 0

\* The pending positive-amount records owed to u by somebody else.
DirectedTo(sts, u) ==
    {j \in DOMAIN sts : /\ sts[j].owedTo = u /\ sts[j].userId # u
                        /\ sts[j].status = "pending"}

\* The pending negative-amount records of u.
LegacyOf(sts, u) == {j \in PendingOf(sts, u) : sts[j].amount < 0}

\* The two representations of what u is owed agree over sts.
Agree(sts, u) ==
    SumAmounts(sts, DirectedTo(sts, u)) = SumAmounts(sts, LegacyOf(sts, u))

\* C12: for every user u, the amounts of the pending settlements owed to u
\* by others sum to the absolute values of u's own pending negative
\* records, in every reachable state: after settlement creation and after
\* any sequence of payments.
C12_RepresentationsAgree == \A u \in Users : Agree(settlements, u)

(***************************************************************************)
(* Claims about the stored groups (SpecMembers).                           *)
(***************************************************************************)
\* C13: in every stored group, no email of pendingMemberEmails resolves to
\* an account that is already in members.
C13_PendingNotConfirmed ==
    \A g \in DOMAIN groups :
        \A e \in Range(groups[g].pendingMemberEmails) :
            AccountsOf(e) \cap Range(groups[g].members) = {}

\* C14: membership writes are merges.  No write to a stored group drops a
\* member or a member email the group had, and an email leaves
\* pendingMemberEmails only by being promoted (its account is then in
\* members): nothing one operation added is lost to the write of another
\* operation that read the group before.
C14_WritesAreMerges ==
    [][\A g \in DOMAIN groups :
          /\ Range(groups[g].members) \subseteq Range(groups'[g].members)
          /\ Range(groups[g].memberEmails)
                 \subseteq Range(groups'[g].memberEmails)
          /\ \A e \in Range(groups[g].pendingMemberEmails) :
                 \/ e \in Range(groups'[g].pendingMemberEmails)
                 \/ \E a \in DOMAIN users' :
                        /\ a \in Range(groups'[g].members)
                        /\ users'[a].email \in {e, ToLowerCase(Trim(e))}]_vars

\* C15: the members array of every stored group holds no account id twice,
\* whatever createGroup and addMembersToGroup ran and however their reads
\* and writes interleaved, and neither does the members array a run of
\* loadGroupMembers on the stored group builds.
C15_MembersIsASet ==
    \A g \in DOMAIN groups :
        /\ Cardinality(Range(groups[g].members)) = Len(groups[g].members)
        /\ \A failing \in Failures(groups[g]) :
               LET memberIds == resolveGroup(groups[g], failing).memberIds
               IN  Cardinality(Range(memberIds)) = Len(memberIds)

\* u1 created the group with the address of u2, who had an account, and
\* addMembersToGroup has since added the same address again.
C15_Witness ==
    /\ lastAlert = "members_updated"
    /\ Len(groups) = 1
    /\ groups[1].createdBy = "u1"
    /\ groups[1].members = <<"u1", "u2">>
    /\ groups[1].memberEmails = <<"u2@x.com">>
    /\ groups[1].pendingMemberEmails = <<>>

\* C16: whenever a run of loadGroupMembers resolves at least one pending
\* email, the group it leaves in the store has the accounts of the resolved
\* emails in members and none of the resolved emails in
\* pendingMemberEmails; when it resolves none, the stored group is as it
\* was.
C16_PromotionPersisted ==
    \A g \in DOMAIN groups : \A failing \in Failures(groups[g]) :
        LET second == resolveGroup(groups[g], failing)
            loaded == loadGroupMembers(groups[g], ExpensesImports, failing)
            promoted == Range(second.newlyResolvedEmails)
        IN  IF promoted # {}
            THEN /\ \A e \in promoted :
                        AccountsOf(e) \subseteq Range(loaded.group.members)
                 /\ promoted \cap Range(loaded.group.pendingMemberEmails)
                        = {}
            ELSE loaded.group = groups[g]

\* C17: in a run of loadGroupMembers in which the lookup of a pending email
\* throws, that email stays pending (in the resolution's stillPending, on
\* the form and in the stored group), and every other pending email is
\* still looked up: one with an account is resolved and its accounts are
\* among the members the form offers, one without stays pending.
C17_LookupFailureIsolated ==
    \A g \in DOMAIN groups : \A failing \in Failures(groups[g]) :
        LET second == resolveGroup(groups[g], failing)
            loaded == loadGroupMembers(groups[g], ExpensesImports, failing)
        IN  \A p \in Range(groups[g].pendingMemberEmails) :
                LET e == Trim(p)
                IN  e # "" =>
                    IF e \in second.failed
                    THEN /\ e \in Range(second.stillPending)
                         /\ e \notin Range(second.newlyResolvedEmails)
                         /\ e \in Range(loaded.pending)
                         /\ p \in Range(loaded.group.pendingMemberEmails)
                    ELSE IF AccountsOf(e) # {}
                    THEN /\ e \in Range(second.newlyResolvedEmails)
                         /\ AccountsOf(e) \subseteq Range(second.memberIds)
                         /\ AccountsOf(e) \subseteq Range(loaded.memberIds)
                    ELSE e \in Range(second.stillPending)

\* The form after a run of loadGroupMembers in which the lookup of one
\* pending email threw and another pending email was resolved: the first is
\* shown as pending, the account of the second is offered as a member.
C17_Witness ==
    /\ memberList.groupId \in DOMAIN groups
    /\ memberList.failed # {}
    /\ memberList.failed \subseteq Range(memberList.pending)
    /\ \E e \in Range(groups[memberList.groupId].pendingMemberEmails)
                  \ memberList.failed :
           /\ AccountsOf(e) # {}
           /\ AccountsOf(e) \subseteq Range(memberList.memberIds)
           /\ AccountsOf(e) \cap Range(groups[memberList.groupId].members)
                  = {}
           /\ e \notin Range(memberList.pending)

(***************************************************************************)
(* Claims about deleteGroup (SpecDelete).                                  *)
(***************************************************************************)
\* C18: when deleteGroup has completed successfully for a group, the store
\* holds no expense and no settlement with the groupId of that group.
C18_DeleteCascades ==
    [][\A g \in removed'.groups \ removed.groups :
          /\ ExpensesOfGroup(g)' = {}
          /\ \A j \in DOMAIN settlements' : settlements'[j].groupId # g]_vars

\* C19: the group document is removed only by a deleteGroup whose child
\* deletions have all completed (every expense its query returned is
\* removed), and a deleteGroup one of whose child deletions failed ends with
\* the error alert and does not remove the group.
C19_ParentAfterChildren ==
    [][/\ \A g \in removed'.groups \ removed.groups :
              \E user \in DOMAIN users :
                  /\ sessions[user].pc = "deleteGroup"
                  /\ sessions[user].groupId = g
                  /\ sessions[user].queried \subseteq removed.expenses
       /\ \A user \in DOMAIN users : \A g \in DOMAIN groups :
              (/\ sessions[user].pc = "deleteExpenses"
               /\ sessions[user].groupId = g
               /\ sessions'[user].pc # "deleteExpenses"
               /\ ExpensesOfGroup(g)' # {})
                  => /\ sessions'[user].pc = "idle"
                     /\ lastAlert' = "error_deleting_group"
                     /\ removed'.groups = removed.groups]_vars

\* The group is removed and so is an expense of it.
C19_Witness ==
    /\ lastAlert = "group_deleted"
    /\ 1 \in removed.groups
    /\ \E i \in removed.expenses : expenses[i].groupId = 1

\* C20: no step changes a field of a stored expense.
C20_ExpenseImmutable ==
    [][\A i \in DOMAIN expenses :
          ExpenseExists(i)' => expenses'[i] = expenses[i]]_vars

(***************************************************************************)
(* Claims about rejected writes (SpecFaulty).                              *)
(***************************************************************************)
\* Every settlement record of expense i is in sts.
SettlementsComplete(sts, exps, i) ==
    Cardinality({j \in DOMAIN sts : sts[j].expenseId = i})
        = Len(calculateSettlements(exps[i].groupId, exps[i], i))

\* C21: XP is awarded only for writes that happened.  A step of addExpense
\* that raises the payer's XP has written every settlement record of the
\* new expense, and a payment step that raises the caller's XP has set the
\* status of a settlement to 'paid'.
C21_NoCreditWithoutWrite ==
    [][/\ \A i \in (DOMAIN expenses') \ (DOMAIN expenses) :
              users'[expenses'[i].paidBy].xpPoints
                  > users[expenses'[i].paidBy].xpPoints
                  => SettlementsComplete(settlements', expenses', i)
       /\ (expenses' = expenses
              /\ \E u \in DOMAIN users :
                     users'[u].xpPoints > users[u].xpPoints)
              => /\ lastAlert' = "payment_successful"
                 /\ \E j \in DOMAIN settlements :
                        /\ settlements'[j].status = "paid"
                        /\ \A k \in (DOMAIN settlements) \ {j} :
                               settlements'[k] = settlements[k]]_vars

\* C22: addExpense ends with 'Expense added successfully' only when every
\* settlement record of the expense it stored is in the store; a rejected
\* settlement write ends it with another message.
C22_SuccessMeansComplete ==
    [][\A i \in (DOMAIN expenses') \ (DOMAIN expenses) :
          lastAlert' = "expense_added"
              => SettlementsComplete(settlements', expenses', i)]_vars

(***************************************************************************)
(* Claims about the expense page (SpecDetails, SpecPage).                  *)
(***************************************************************************)
\* The session of u shows the page of an expense.
ShowsPage(u) == "split" \in DOMAIN sessions[u]

\* The participants the shares of a stored expense are reconstructed from:
\* its own list, else the confirmed members of its group with the invited
\* addresses that have accounts.
Participants(expense) ==
    IF expense.splitMembers # {} THEN expense.splitMembers
    ELSE Range(groups[expense.groupId].members) \cup
         UNION {AccountsOf(groups[expense.groupId].memberEmails[k]) :
                    k \in DOMAIN groups[expense.groupId].memberEmails}

\* C23: for an expense stored without a split, the page that loaded without
\* a failed read shows a share for exactly the participants other than the
\* payer, each share is the amount divided by their number (to the nearest
\* thousandth), the shares sum to the amount within the tolerance, and with
\* no participant left the split is empty.
C23_DerivedSplit ==
    \A u \in DOMAIN sessions :
      (ShowsPage(u) /\ ~sessions[u].failing
          /\ DOMAIN expenses[sessions[u].expenseId].splitAmounts = {})
      => LET expense == expenses[sessions[u].expenseId]
             split == sessions[u].split
             remaining == Participants(expense) \ {expense.paidBy}
             n == Cardinality(remaining)
         IN  /\ DOMAIN split = remaining
             /\ expense.paidBy \notin DOMAIN split
             /\ \A m \in remaining :
                    2 * Abs(n * split[m] - expense.amount) <= n
             /\ remaining # {}
                    => Abs(SumOver(split, remaining) - expense.amount)
                           <= Tolerance
             /\ remaining = {} => split = NoSplit

\* A page shows the split derived from the group for an expense of 100.001
\* paid by u1: u3 is a member and u2 is found by the invited address
\* 'U2@x.com'.
C23_Witness ==
    \E u \in DOMAIN sessions :
      /\ ShowsPage(u) /\ ~sessions[u].failing
      /\ expenses[1].splitAmounts = NoSplit
      /\ expenses[1].splitMembers = {}
      /\ expenses[1].paidBy = "u1"
      /\ expenses[1].amount = 100001
      /\ groups[1].memberEmails = <<"U2@x.com">>
      /\ DOMAIN sessions[u].split = {"u2", "u3"}
      /\ sessions[u].split["u2"] = 50001

\* C24: an empty list of eligible members is nothing to settle and not an
\* error.  addExpense never refuses a form for having no member selected,
\* and an expense whose only selected member is the payer is stored with an
\* empty split and without settlement records.
C24_EmptyListIsNotAnError ==
    /\ lastAlert # "select_member"
    /\ \A i \in DOMAIN expenses :
          expenses[i].splitMembers \subseteq {expenses[i].paidBy}
              => /\ DOMAIN expenses[i].splitAmounts = {}
                 /\ \A j \in DOMAIN settlements :
                        settlements[j].expenseId # i

\* C25: the payer of an expense cannot settle it.  settlePayment never goes
\* on to its write for the account that paid the expense, no step adds the
\* payer to the settlementStatus of an expense, and the step that answers
\* 'You cannot settle a payment for your own expense' changes neither an
\* expense nor a settlement.
C25_PayerCannotSettle ==
    [][/\ \A u \in DOMAIN sessions :
              (sessions[u].pc = "idle" /\ sessions'[u].pc = "write")
                  => expenses[sessions'[u].expenseId].paidBy # u
       /\ \A i \in DOMAIN expenses :
              expenses[i].paidBy \in expenses'[i].settlementStatus
                  => expenses[i].paidBy \in expenses[i].settlementStatus
       /\ lastAlert' = "cannot_settle_own"
              => expenses' = expenses /\ settlements' = settlements]_vars

\* The payer of an expense that has settlement records, and that a debtor
\* has settled, was refused.
C25_Witness ==
    /\ lastAlert = "cannot_settle_own"
    /\ settlements # <<>>
    /\ \E i \in DOMAIN expenses :
          /\ expenses[i].settlementStatus # {}
          /\ expenses[i].paidBy \notin expenses[i].settlementStatus

\* C26: only the creator of a group deletes it.  deleteGroup goes past its
\* ownership check only for an existing group and its creator; a group or
\* an expense is removed only by the deleteGroup of the group's creator;
\* and the call that answers 'Only the group creator can delete this
\* group' or 'Group not found' ends there and removes nothing.
C26_OnlyCreatorDeletes ==
    [][/\ \A u \in DOMAIN sessions :
              (sessions[u].pc = "idle" /\ sessions'[u].pc = "deleteExpenses")
                  => /\ GroupExists(sessions'[u].groupId)
                     /\ groups[sessions'[u].groupId].createdBy = u
       /\ \A g \in removed'.groups \ removed.groups :
              \E u \in DOMAIN sessions :
                 /\ sessions[u].pc = "deleteGroup"
                 /\ sessions[u].groupId = g
                 /\ groups[g].createdBy = u
       /\ \A i \in removed'.expenses \ removed.expenses :
              \E u \in DOMAIN sessions :
                 /\ sessions[u].pc = "deleteExpenses"
                 /\ sessions[u].groupId = expenses[i].groupId
                 /\ groups[expenses[i].groupId].createdBy = u
       /\ (lastAlert' \in {"only_creator_can_delete", "group_not_found"}
              /\ sessions' = sessions)
              => /\ removed' = removed
                 /\ groups' = groups
                 /\ expenses' = expenses]_vars

\* A member who did not create the group was refused, and the group and
\* its expense are still there.
C26_Witness ==
    /\ lastAlert = "only_creator_can_delete"
    /\ GroupExists(1)
    /\ ExpensesOfGroup(1) # {}

(***************************************************************************)
(* Claims about reminders (SpecReminder).                                  *)
(***************************************************************************)
\* C27: a reminder goes to the person who owes.  The user of every reminder
\* document is not the creditor (owedTo) of its settlement and has a
\* positive share of the settlement's expense.
C27_ReminderGoesToDebtor ==
    \A k \in DOMAIN reminders :
      LET st == settlements[reminders[k].settlementId]
          userId == reminders[k].userId
      IN  /\ userId # st.owedTo
          /\ userId \in Debtors(st.expenseId)
          /\ expenses[st.expenseId].splitAmounts[userId] > 0

\* C28: the totals of the expense page count only pending debts.  On the
\* page of every stored expense, for every viewer, 'You owe' is the viewer's
\* own share while its status is not 'paid', and 'Owed to you' is, for the
\* payer, the sum of the shares of the debtors whose status is not 'paid'.
C28_TotalsCountPendingOnly ==
    \A i \in DOMAIN expenses, viewer \in DOMAIN users :
      LET page == ExpensePage(i, viewer, FALSE)
          unpaid == {m \in LocalDebtors(expenses[i], page.split) :
                        StatusOf(expenses[i], m) # "paid"}
      IN  /\ page.youOwe =
                 IF viewer \in unpaid THEN page.split[viewer] ELSE 0
          /\ page.owedToYou =
                 IF expenses[i].paidBy = viewer
                 THEN SumOver(page.split, unpaid) ELSE 0

(***************************************************************************)
(* Claims about the two mark-paid paths together (Spec).                   *)
(***************************************************************************)
\* C29: the two stores of payment status agree.  For every expense and
\* every member who owes a share of it, the expense's settlementStatus says
\* 'paid' for the member exactly when the member's settlement record of the
\* expense has status 'paid'.
C29_StatusStoresAgree ==
    \A i \in DOMAIN expenses :
      \A d \in Debtors(i) :
        (StatusOf(expenses[i], d) = "paid") <=> HasPaid(i, d)

(***************************************************************************)
(* Claims about awardXP (SpecAward).                                       *)
(***************************************************************************)
\* C30: XP accounting is exact.  Every completed call of awardXP raises the
\* stored xpPoints of its user by the points of the call, so that the
\* stored value is the sum of the points awarded, and the stored level is
\* floor(xpPoints / 100) + 1.
C30_AwardsAddUp ==
    [][\A client \in DOMAIN sessions :
          (sessions[client].pc = "awardXP" /\ sessions'[client].pc = "idle")
              => LET userId == sessions[client].userId
                 IN  /\ users'[userId].xpPoints
                            = users[userId].xpPoints + sessions[client].points
                     /\ users'[userId].level
                            = (users'[userId].xpPoints \div 100) + 1]_vars

====
